---- MODULE Spec2Model ----
(***************************************************************************)
(* The public goods game engines of the repository.                        *)
(*                                                                         *)
(* The repository holds three engines, all named PublicGoodsGame:          *)
(*   "pgg"  src/public_goods_game.py  (Player objects, run, reset)         *)
(*   "gen"  src/1_data_generation.py  (run_simulation, calculate_payoff)   *)
(*   "app"  src/streamlit_app.py      (the same, types sized by N)         *)
(* The variable impl says which engine a behaviour is about.               *)
(*                                                                         *)
(* Numbers.  Contributions, pools and endowments are Python ints.  The     *)
(* multiplier is a float; the model draws it from integer values, so that  *)
(* every reward is an exact rational.  A reward is kept in hundredths      *)
(* (the integer 100 * reward): round(x, 2) becomes Round2.  An average is  *)
(* kept as the fraction [num, den] that the code divides.                  *)
(*                                                                         *)
(* Random draws (random.randint, np.random.randint, random.shuffle) are    *)
(* choices over the values the call can return.                            *)
(***************************************************************************)
EXTENDS Integers, Sequences, FiniteSets, TLC

VARIABLES
    impl,          \* which engine: "pgg", "gen" or "app"
    n_players,     \* self.n_players
    endowment,     \* self.endowment
    multiplier,    \* self.multiplier
    n_rounds,      \* self.n_rounds (pgg) / self.rounds (gen, app)
    player_types,  \* pgg: the players' strategies; gen, app: self.player_types
    phase,         \* "CONFIGURED", "RUNNING", "COMPLETE" or "ERROR"
    governance,    \* the governance argument of the run in progress / last run
    round,         \* the loop variable r of run / run_simulation
    prev_avg,      \* the local prev_avg of run / run_simulation, a fraction
    records,       \* pgg: all_records of run; gen, app: self.history
    history,       \* pgg: Player.history of every player
    rewards,       \* pgg: Player.rewards of every player
    decisions,     \* the last round: [prev |-> prev_avg passed, raw |-> decisions returned]
    returned,      \* what each finished run returned, with its governance argument
    error          \* the exception that ended construction or a run, "" when none

vars == <<impl, n_players, endowment, multiplier, n_rounds, player_types, phase,
          governance, round, prev_avg, records, history, rewards, decisions,
          returned, error>>

config == <<impl, n_players, endowment, multiplier, n_rounds, player_types>>

----------------------------------------------------------------------------
(* Bounds of the model *)

\* the largest endowment tried
MaxEndowment == 2
\* the number of runs made on one engine
MaxRuns == 2
\* an engine is run again only when all its runs emit at most this many records
MaxRerun == 4
\* a configuration is tried only when a run's records (gen, app) or the sum of a
\* run's contributions (pgg) stay within this
MaxRecords == 11

----------------------------------------------------------------------------
(* Arithmetic *)

Max(a, b) == IF a >= b THEN a ELSE b
Min(a, b) == IF a <= b THEN a ELSE b

\* int(x) of a float x = num / den, den > 0: truncation toward zero
Trunc(num, den) ==
    IF num >= 0 THEN num \div den ELSE -((-num) \div den)

\* max(0, min(endowment, x))
Clamp(x, endow) == Max(0, Min(endow, x))

\* round(num / den, 0) for den > 0, ties to the even neighbour: Python's round.
\* With the reward in hundredths this is round(reward, 2).
Round2(num, den) ==
    LET q == IF num >= 0 THEN num \div den ELSE -(((-num) + den - 1) \div den)
        r == num - q * den
    IN  IF 2 * r < den THEN q
        ELSE IF 2 * r > den THEN q + 1
        ELSE IF q % 2 = 0 THEN q ELSE q + 1

RECURSIVE SumSeq(_)
SumSeq(s) == IF s = <<>> THEN 0 ELSE Head(s) + SumSeq(Tail(s))

\* all sequences whose i-th element is drawn from sets[i]
RECURSIVE Product(_)
Product(sets) ==
    IF sets = <<>> THEN {<<>>}
    ELSE {<<x>> \o t : x \in Head(sets), t \in Product(Tail(sets))}

Count(s, x) == Cardinality({i \in 1..Len(s) : s[i] = x})

----------------------------------------------------------------------------
(* Configuration *)

Impls == {"pgg", "gen", "app"}

\* the governance arguments tried; "tax" is not a governance mode
GovernanceModes == {"none", "punishment", "reward"}
GovernanceInputs == GovernanceModes \cup {"tax"}

\* the population sizes tried: pgg shuffles a list of types, so it is kept small;
\* gen and app need five players to hold every type
PlayerCounts(i) == IF i = "pgg" THEN {-1, 0, 1, 2, 11} ELSE {-1, 0, 1, 5, 11}

\* the round counts tried: only pgg's players behave differently late in a run
RoundCounts(i) == IF i = "pgg" THEN {0, 1, 2, 11} ELSE {0, 1, 2}

Endowments == -1..MaxEndowment

Multipliers == {-1, 2}

\* what section 7 of the specification calls a valid configuration
ValidConfig == n_players >= 1 /\ endowment >= 0 /\ n_rounds >= 1

----------------------------------------------------------------------------
(* src/public_goods_game.py *)

Strategies == {"cooperator", "free_rider", "conditional"}

\* the list that __init__ shuffles: 3 cooperators, 3 free riders, 4 conditional
StrategyList ==
    <<"cooperator", "cooperator", "cooperator",
      "free_rider", "free_rider", "free_rider",
      "conditional", "conditional", "conditional", "conditional">>

\* the first n entries of every shuffle of StrategyList
ShuffledPrefixes(n) ==
    {s \in [1..n -> Strategies] :
        \A t \in Strategies : Count(s, t) <= Count(StrategyList, t)}

\* round_num > FatigueRound: conditional players tire
FatigueRound == 10

\* the values of the first random.randint of decide_contribution
FirstDraws(strategy) ==
    CASE strategy = "cooperator" -> 6..10
      [] strategy = "free_rider" -> 0..3
      [] OTHER -> -2..2

\* the values of the second random.randint, drawn only by a tired conditional player
FatigueDraws(strategy, round_num) ==
    IF round_num > FatigueRound /\ strategy = "conditional" THEN 0..2 ELSE {0}

\* Player.decide_contribution with its draws d1 and d2
DecideContribution(strategy, endow, round_num, pavg, d1, d2) ==
    LET base0 == IF strategy \in {"cooperator", "free_rider"} THEN d1
                 ELSE Max(0, Min(10, Trunc(pavg.num, pavg.den) + d1))
        base1 == IF round_num > FatigueRound /\ strategy = "conditional"
                 THEN Max(0, base0 - d2) ELSE base0
    IN  Max(0, Min(endow, base1))

\* what decide_contribution can return
PggDecisions(strategy, endow, round_num, pavg) ==
    {DecideContribution(strategy, endow, round_num, pavg, d1, d2) :
        d1 \in FirstDraws(strategy), d2 \in FatigueDraws(strategy, round_num)}

\* _base_reward, as the fraction it computes:
\* (endowment - contribution) + (total_pool * multiplier) / n_players
BaseReward(contribution, total_pool, mult, n, endow) ==
    [num |-> n * (endow - contribution) + total_pool * mult, den |-> n]

\* _simulate_round punishing c_i <= avg_contribution instead of c_i < (mutant)
PggRewardPunishesAtAverage(c_i, total_pool, gov, mult, n, endow) ==
    LET base == BaseReward(c_i, total_pool, mult, n, endow)
    IN  IF gov = "punishment" /\ c_i * n <= total_pool THEN 0
        ELSE IF gov = "reward" /\ c_i * n > total_pool
             THEN Round2(130 * base.num, base.den)
        ELSE Round2(100 * base.num, base.den)

\* the reward of one player in _simulate_round, in hundredths
PggReward(c_i, total_pool, gov, mult, n, endow) ==
    LET base == BaseReward(c_i, total_pool, mult, n, endow)
    IN  IF gov = "punishment" /\ c_i * n < total_pool THEN 0
        ELSE IF gov = "reward" /\ c_i * n > total_pool
             THEN Round2(130 * base.num, base.den)
        ELSE Round2(100 * base.num, base.den)

\* total_pool = sum(contributions.values()) / sum(contributions); the mutant
\* leaves the first player out of the sum
TotalPoolSkipsFirst(cs) == IF cs = <<>> THEN 0 ELSE SumSeq(Tail(cs))

TotalPool(cs) == SumSeq(cs)

\* the records _simulate_round returns for the contributions cs
PggRoundRecords(round_num, gov, cs, mult, n, endow) ==
    [i \in 1..Len(cs) |->
        [round |-> round_num, player_id |-> i, contribution |-> cs[i],
         total_pool |-> TotalPool(cs),
         reward |-> PggReward(cs[i], TotalPool(cs), gov, mult, n, endow)]]

----------------------------------------------------------------------------
(* src/1_data_generation.py and src/streamlit_app.py *)

\* gen: self.player_types, ten entries whatever n_players is
GenPlayerTypes ==
    <<"free_rider", "free_rider", "altruist", "altruist",
      "conditional", "conditional", "conditional", "conditional",
      "conditional", "conditional">>

\* a Python list repeated k times: empty when k <= 0
Repeat(x, k) == [i \in 1..Max(k, 0) |-> x]

\* app: self.player_types, sized by n_players; int(n * 0.2) truncates
AppPlayerTypes(n) ==
    LET fifth == Trunc(n, 5)
    IN  Repeat("free_rider", fifth) \o Repeat("altruist", fifth)
            \o Repeat("conditional", n - fifth - fifth)

\* np.random.randint(low, high): low..high-1, and a ValueError when that is empty
RandInt(low, high) == low..(high - 1)

\* the ranges of the round-1 draw of get_decision
FirstRoundDraws(i, p_type, endow) ==
    IF i = "gen"
    THEN CASE p_type = "free_rider" -> RandInt(0, 3)
           [] p_type = "altruist" -> RandInt(8, 11)
           [] OTHER -> RandInt(4, 7)
    ELSE CASE p_type = "free_rider" -> RandInt(0, 3)
           [] p_type = "altruist" -> RandInt(Trunc(4 * endow, 5), endow + 1)
           [] OTHER -> RandInt(Trunc(2 * endow, 5), Trunc(7 * endow, 10))

\* the noise of get_decision: np.random.randint(-1, 2)
Noise == RandInt(-1, 2)

\* get_decision after round 1, with its noise
LaterDecision(i, p_type, endow, pavg, noise) ==
    CASE p_type = "free_rider" -> Clamp(0 + Max(0, noise), endow)
      [] p_type = "altruist" ->
            Clamp((IF i = "gen" THEN 10 ELSE endow) + Min(0, noise), endow)
      [] OTHER -> Clamp(Trunc(pavg.num, pavg.den) + noise, endow)

\* what get_decision can return; empty when its draw raises ValueError
GetDecisions(i, p_type, endow, current_round, pavg) ==
    IF current_round = 1 THEN FirstRoundDraws(i, p_type, endow)
    ELSE {LaterDecision(i, p_type, endow, pavg, noise) : noise \in Noise}

\* what a free rider under punishment raises its decision to
\*   gen: int(prev_avg * 0.8) if r > 1 else 5
\*   app: int(prev_avg * 0.8) if prev_avg > 0 else 0
FearFloor(i, r, pavg) ==
    IF i = "gen"
    THEN IF r > 1 THEN Trunc(4 * pavg.num, 5 * pavg.den) ELSE 5
    ELSE IF pavg.num > 0 THEN Trunc(4 * pavg.num, 5 * pavg.den) ELSE 0

\* the decision phase with the reward mode's + 1 given to every type (mutant)
FinalContributionChasedByAll(i, gov, p_type, base_c, r, pavg, endow) ==
    LET feared == IF gov = "punishment" /\ p_type = "free_rider"
                  THEN Max(base_c, FearFloor(i, r, pavg)) ELSE base_c
        chased == IF gov = "reward" THEN feared + 1 ELSE feared
    IN  Max(0, Min(endow, chased))

\* the decision phase of run_simulation for one player: adaptation, then the clamp
FinalContribution(i, gov, p_type, base_c, r, pavg, endow) ==
    LET feared == IF gov = "punishment" /\ p_type = "free_rider"
                  THEN Max(base_c, FearFloor(i, r, pavg)) ELSE base_c
        chased == IF gov = "reward" /\ p_type = "conditional"
                  THEN feared + 1 ELSE feared
    IN  Max(0, Min(endow, chased))

\* the flat bonus of the reward mode
RewardBonus == 5

\* calculate_payoff with a punishment threshold of 0.5 instead of 0.8 (mutant)
CalculatePayoffLenient(contribution, total_pool, gov, mult, n, endow) ==
    LET base == [num |-> n * (endow - contribution) + total_pool * mult, den |-> n]
        final == IF gov = "punishment" /\ 2 * contribution * n < total_pool
                 THEN [num |-> 0, den |-> 1]
                 ELSE IF gov = "reward" /\ contribution * n > total_pool
                      THEN [num |-> base.num + RewardBonus * n, den |-> n]
                 ELSE base
    IN  Max(0, Round2(100 * final.num, final.den))

\* calculate_payoff with the pool's share not divided by n_players (mutant)
CalculatePayoffUndivided(contribution, total_pool, gov, mult, n, endow) ==
    LET base == [num |-> (endow - contribution) + total_pool * mult, den |-> 1]
        final == IF gov = "punishment" /\ 5 * contribution * n < 4 * total_pool
                 THEN [num |-> 0, den |-> 1]
                 ELSE IF gov = "reward" /\ contribution * n > total_pool
                      THEN [num |-> base.num + RewardBonus, den |-> 1]
                 ELSE base
    IN  Max(0, Round2(100 * final.num, final.den))

\* calculate_payoff, in hundredths; contributions_list sums to total_pool over n
CalculatePayoff(contribution, total_pool, gov, mult, n, endow) ==
    LET base == [num |-> n * (endow - contribution) + total_pool * mult, den |-> n]
        final == IF gov = "punishment" /\ 5 * contribution * n < 4 * total_pool
                 THEN [num |-> 0, den |-> 1]
                 ELSE IF gov = "reward" /\ contribution * n > total_pool
                      THEN [num |-> base.num + RewardBonus * n, den |-> n]
                 ELSE base
    IN  Max(0, Round2(100 * final.num, final.den))

\* the records the payoff phase of run_simulation appends for the contributions cs
SimRoundRecords(i, r, gov, cs, types, mult, n, endow) ==
    [k \in 1..Len(cs) |->
        LET reward == CalculatePayoff(cs[k], TotalPool(cs), gov, mult, n, endow)
        IN  IF i = "gen"
            THEN [round |-> r, player_id |-> k, contribution |-> cs[k],
                  total_pool |-> TotalPool(cs), reward |-> reward, governance |-> gov]
            ELSE [round |-> r, player_id |-> k, player_type |-> types[k],
                  contribution |-> cs[k], total_pool |-> TotalPool(cs),
                  reward |-> reward, governance |-> gov]]

----------------------------------------------------------------------------
(* The engine as a state machine *)

NoDecisions == [prev |-> [num |-> 0, den |-> 1], raw |-> <<>>]

\* the configurations tried.  A run of gen or app emits n * r records, and the
\* types of its players are fixed; pgg draws the types too, so that its runs are
\* bounded by the n * r contributions of a run, each in 0..e
ConfigTried(i, n, e, r) ==
    IF n <= 0 \/ r <= 0 THEN TRUE
    ELSE IF i = "pgg" THEN n * r * Max(e, 0) <= MaxRecords
    ELSE n * r <= MaxRecords

\* the state after PublicGoodsGame(n_players, endowment, multiplier, rounds)
Init ==
    \E i \in Impls :
    \E n \in PlayerCounts(i), e \in Endowments, m \in Multipliers, r \in RoundCounts(i) :
        /\ ConfigTried(i, n, e, r)
        /\ impl = i
        /\ n_players = n
        /\ endowment = e
        /\ multiplier = m
        /\ n_rounds = r
        /\ IF i = "pgg"
           THEN IF n > Len(StrategyList)
                \* strategies[i] for i in range(n_players) runs off the list
                THEN player_types = <<>> /\ phase = "ERROR" /\ error = "IndexError"
                ELSE /\ player_types \in ShuffledPrefixes(n)
                     /\ phase = "CONFIGURED"
                     /\ error = ""
           ELSE /\ player_types = IF i = "gen" THEN GenPlayerTypes ELSE AppPlayerTypes(n)
                /\ phase = "CONFIGURED"
                /\ error = ""
        \* gen and app hold no Player objects
        /\ history = IF i = "pgg" THEN [k \in 1..Len(player_types) |-> <<>>] ELSE <<>>
        /\ rewards = IF i = "pgg" THEN [k \in 1..Len(player_types) |-> <<>>] ELSE <<>>
        /\ governance = ""
        /\ round = 0
        /\ prev_avg = [num |-> 0, den |-> 1]
        /\ records = <<>>
        /\ decisions = NoDecisions
        /\ returned = <<>>

RunsMade == Len(returned)

\* the model's budget of runs on one engine
MayRun ==
    /\ phase \in {"CONFIGURED", "COMPLETE"}
    /\ RunsMade < MaxRuns
    /\ IF RunsMade = 0 THEN TRUE ELSE (RunsMade + 1) * n_players * n_rounds <= MaxRerun

\* pgg: run(governance), up to its loop
Run(g) ==
    /\ impl = "pgg"
    /\ MayRun
    /\ governance' = g
    /\ records' = <<>>
    /\ prev_avg' = [num |-> endowment, den |-> 2]
    /\ round' = 1
    /\ phase' = "RUNNING"
    /\ decisions' = NoDecisions
    /\ UNCHANGED <<config, history, rewards, returned, error>>

\* the loop of run without its last line: prev_avg stays what it was (mutant)
SimulateRoundStaleAverage ==
    /\ impl = "pgg"
    /\ phase = "RUNNING"
    /\ round <= n_rounds
    /\ \E cs \in Product([k \in 1..Len(player_types) |->
                PggDecisions(player_types[k], endowment, round, prev_avg)]) :
        /\ history' = [k \in 1..Len(player_types) |-> Append(history[k], cs[k])]
        /\ decisions' = [prev |-> prev_avg, raw |-> cs]
        /\ IF n_players = 0
           THEN /\ phase' = "ERROR"
                /\ error' = "ZeroDivisionError"
                /\ UNCHANGED <<rewards, records, prev_avg, round>>
           ELSE LET recs == PggRoundRecords(round, governance, cs, multiplier,
                                            n_players, endowment)
                IN  /\ rewards' = [k \in 1..Len(player_types) |->
                                      Append(rewards[k], recs[k].reward)]
                    /\ records' = records \o recs
                    /\ round' = round + 1
                    /\ UNCHANGED <<phase, error, prev_avg>>
    /\ UNCHANGED <<config, governance, returned>>

\* pgg: one pass of the loop of run: _simulate_round, extend, the new prev_avg
SimulateRound ==
    /\ impl = "pgg"
    /\ phase = "RUNNING"
    /\ round <= n_rounds
    /\ \E cs \in Product([k \in 1..Len(player_types) |->
                PggDecisions(player_types[k], endowment, round, prev_avg)]) :
        /\ history' = [k \in 1..Len(player_types) |-> Append(history[k], cs[k])]
        /\ decisions' = [prev |-> prev_avg, raw |-> cs]
        /\ IF n_players = 0
           \* avg_contribution = total_pool / self.n_players
           THEN /\ phase' = "ERROR"
                /\ error' = "ZeroDivisionError"
                /\ UNCHANGED <<rewards, records, prev_avg, round>>
           ELSE LET recs == PggRoundRecords(round, governance, cs, multiplier,
                                            n_players, endowment)
                IN  /\ rewards' = [k \in 1..Len(player_types) |->
                                      Append(rewards[k], recs[k].reward)]
                    /\ records' = records \o recs
                    /\ prev_avg' = [num |-> TotalPool(cs), den |-> n_players]
                    /\ round' = round + 1
                    /\ UNCHANGED <<phase, error>>
    /\ UNCHANGED <<config, governance, returned>>

\* run_simulation without its first line, self.history = [] (mutant)
RunSimulationKeepsHistory(g) ==
    /\ impl \in {"gen", "app"}
    /\ MayRun
    /\ governance' = g
    /\ prev_avg' = [num |-> 0, den |-> 1]
    /\ round' = 1
    /\ phase' = "RUNNING"
    /\ decisions' = NoDecisions
    /\ UNCHANGED <<config, records, history, rewards, returned, error>>

\* gen, app: run_simulation(governance_type), up to its loop
RunSimulation(g) ==
    /\ impl \in {"gen", "app"}
    /\ MayRun
    /\ governance' = g
    /\ records' = <<>>
    /\ prev_avg' = [num |-> 0, den |-> 1]
    /\ round' = 1
    /\ phase' = "RUNNING"
    /\ decisions' = NoDecisions
    /\ UNCHANGED <<config, history, rewards, returned, error>>

\* the players the decision phase reaches before player_types[i] runs off the list
Reached == 1..Min(Max(n_players, 0), Len(player_types))

\* gen, app: one pass of the loop of run_simulation: decisions, then payoffs
SimulationRound ==
    /\ impl \in {"gen", "app"}
    /\ phase = "RUNNING"
    /\ round <= n_rounds
    /\ LET sets == [k \in Reached |->
                      GetDecisions(impl, player_types[k], endowment, round, prev_avg)]
       IN  IF \E k \in Reached : sets[k] = {}
           \* np.random.randint(low, high) with low >= high
           THEN /\ phase' = "ERROR"
                /\ error' = "ValueError"
                /\ UNCHANGED <<records, prev_avg, round, decisions>>
           ELSE IF n_players > Len(player_types)
           \* self.player_types[player_idx] runs off the list
           THEN /\ phase' = "ERROR"
                /\ error' = "IndexError"
                /\ UNCHANGED <<records, prev_avg, round, decisions>>
           ELSE IF n_players = 0
           \* current_avg = total_pool / self.n_players
           THEN /\ phase' = "ERROR"
                /\ error' = "ZeroDivisionError"
                /\ UNCHANGED <<records, prev_avg, round, decisions>>
           ELSE \E raw \in Product(sets) :
                LET cs == [k \in Reached |->
                              FinalContribution(impl, governance, player_types[k],
                                                raw[k], round, prev_avg, endowment)]
                IN  /\ records' = records \o
                            SimRoundRecords(impl, round, governance, cs, player_types,
                                            multiplier, n_players, endowment)
                    /\ prev_avg' = [num |-> TotalPool(cs), den |-> n_players]
                    /\ round' = round + 1
                    /\ decisions' = [prev |-> prev_avg, raw |-> raw]
                    /\ UNCHANGED <<phase, error>>
    /\ UNCHANGED <<config, governance, history, rewards, returned>>

\* the loop is over: run returns all_records, run_simulation the frame of self.history
Return ==
    /\ phase = "RUNNING"
    /\ round > n_rounds
    /\ phase' = "COMPLETE"
    /\ returned' = Append(returned, [governance |-> governance, result |-> records])
    /\ UNCHANGED <<config, governance, round, prev_avg, records, history, rewards,
                   decisions, error>>

\* reset() that clears Player.history and leaves Player.rewards (mutant)
ResetKeepsRewards ==
    /\ impl = "pgg"
    /\ phase \in {"CONFIGURED", "COMPLETE"}
    /\ history' = [k \in 1..Len(player_types) |-> <<>>]
    /\ UNCHANGED <<config, phase, governance, round, prev_avg, records, decisions,
                   returned, error, rewards>>

\* pgg: reset()
Reset ==
    /\ impl = "pgg"
    /\ phase \in {"CONFIGURED", "COMPLETE"}
    /\ history' = [k \in 1..Len(player_types) |-> <<>>]
    /\ rewards' = [k \in 1..Len(player_types) |-> <<>>]
    /\ UNCHANGED <<config, phase, governance, round, prev_avg, records, decisions,
                   returned, error>>

Next ==
    \/ \E g \in GovernanceInputs : Run(g)
    \/ SimulateRound
    \/ \E g \in GovernanceInputs : RunSimulation(g)
    \/ SimulationRound
    \/ Return
    \/ Reset

Spec == Init /\ [][Next]_vars

----------------------------------------------------------------------------
(* Properties of the records *)

\* the sum of the contribution fields of the records of round r
RECURSIVE ContributionSum(_, _)
ContributionSum(recs, r) ==
    IF recs = <<>> THEN 0
    ELSE (IF Head(recs).round = r THEN Head(recs).contribution ELSE 0)
            + ContributionSum(Tail(recs), r)

\* the un-bonused base reward of a record, as a fraction over n_players
BaseOf(rec) ==
    [num |-> n_players * (endowment - rec.contribution) + rec.total_pool * multiplier,
     den |-> n_players]

\* C1: in every round of every run, under any governance argument, the total_pool
\* of each record equals the sum of the contributions of the records of its round.
C1_PoolIsSumOfRound ==
    \A k \in 1..Len(records) :
        records[k].total_pool = ContributionSum(records, records[k].round)

\* C1's case: a finished run of two rounds whose players contributed differently
C1_Witness ==
    /\ phase = "COMPLETE"
    /\ \E j, k \in 1..Len(records) :
        /\ records[j].round = records[k].round
        /\ records[j].contribution # records[k].contribution
    /\ \E k \in 1..Len(records) : records[k].round = 2 /\ records[k].total_pool > 0

\* C2: every emitted contribution, and every value appended to a player's history,
\* lies in 0..endowment, in every run.
C2_ContributionWithinEndowment ==
    /\ \A k \in 1..Len(records) :
        0 <= records[k].contribution /\ records[k].contribution <= endowment
    /\ \A p \in 1..Len(history) : \A j \in 1..Len(history[p]) :
        0 <= history[p][j] /\ history[p][j] <= endowment

\* C2 where the endowment is not negative (not the claim: what is left of it)
C2_WithinValidEndowment == endowment >= 0 => C2_ContributionWithinEndowment

\* C3: every record of every run has reward >= 0, in every governance mode.
\* Stated over the valid configurations, where it does not rest on C9.
C3_RewardNonNegative ==
    ValidConfig => \A k \in 1..Len(records) : records[k].reward >= 0

\* C4: under punishment, a player whose contribution is strictly below 0.8 times the
\* round's average (total_pool / n_players) has reward 0.
C4_PunishedBelowThreshold ==
    governance = "punishment" =>
        \A k \in 1..Len(records) :
            5 * records[k].contribution * n_players < 4 * records[k].total_pool
                => records[k].reward = 0

\* C4's case: a punished player whose base reward was positive, beside one who
\* stayed above the threshold and kept a positive reward
C4_Witness ==
    /\ impl = "gen"
    /\ governance = "punishment"
    /\ \E j, k \in 1..Len(records) :
        /\ records[j].round = records[k].round
        /\ 5 * records[j].contribution * n_players < 4 * records[j].total_pool
        /\ BaseOf(records[j]).num > 0
        /\ records[j].reward = 0
        /\ 5 * records[k].contribution * n_players >= 4 * records[k].total_pool
        /\ records[k].reward > 0

\* C5: under reward, a player whose contribution strictly exceeds the round's average
\* has a recorded reward >= the un-bonused base reward, and a player at or below the
\* average has exactly the base reward (as recorded: rounded to 2 decimals).
\* Stated over the valid configurations, where it does not rest on C9.
C5_RewardMonotone ==
    (ValidConfig /\ governance = "reward") =>
        \A k \in 1..Len(records) :
            LET rec == records[k]
                base == BaseOf(rec)
            IN  IF rec.contribution * n_players > rec.total_pool
                THEN rec.reward * base.den >= 100 * base.num
                ELSE rec.reward = Round2(100 * base.num, base.den)

----------------------------------------------------------------------------
(* Properties of runs *)

\* C6: run, reset, run under one mode: the second run returns the list the first
\* returned.  The first run of an engine built with seed s is the run of a fresh
\* engine with seed s; reset leaves the random generator where the first run left
\* it.  That reset came between the runs shows in the histories, which hold the
\* contributions of one run only.
C6_ResetThenRunReproduces ==
    (/\ impl = "pgg"
     /\ ValidConfig
     /\ phase = "COMPLETE"
     /\ Len(returned) = 2
     /\ returned[1].governance = returned[2].governance
     /\ \A p \in 1..Len(history) : Len(history[p]) = n_rounds)
        => returned[2].result = returned[1].result

\* the prev_avg a run starts with
InitialAvg ==
    IF impl = "pgg" THEN [num |-> endowment, den |-> 2] ELSE [num |-> 0, den |-> 1]

\* the players that emit a record in a round that ends without an exception
Emitting == IF impl = "pgg" THEN Len(player_types) ELSE Max(n_players, 0)

\* the records of a round, from the configuration, the governance argument, the
\* average passed to the decisions and the decisions drawn, and nothing else
RecordsFrom(r, gov, pavg, raw) ==
    IF impl = "pgg"
    THEN PggRoundRecords(r, gov, raw, multiplier, n_players, endowment)
    ELSE SimRoundRecords(impl, r, gov,
            [k \in 1..Len(raw) |->
                FinalContribution(impl, gov, player_types[k], raw[k], r, pavg, endowment)],
            player_types, multiplier, n_players, endowment)

\* C7: a run does not depend on what earlier runs left on the engine.  Whatever
\* the players' histories and the earlier results hold, a run starts from an empty
\* record list and the fixed first average, its list holds the records of its own
\* rounds only, and the records of each round are those computed from the
\* configuration, the mode, the average passed and the decisions drawn.
C7_RunsIndependent ==
    phase \in {"RUNNING", "COMPLETE"} =>
        /\ round = 1 => (records = <<>> /\ prev_avg = InitialAvg)
        /\ round = 2 => decisions.prev = InitialAvg
        /\ Len(records) = Emitting * (round - 1)
        /\ \A k \in 1..Len(records) : records[k].round = ((k - 1) \div Emitting) + 1
        /\ round >= 2 =>
            SubSeq(records, Len(records) - Emitting + 1, Len(records))
                = RecordsFrom(round - 1, governance, decisions.prev, decisions.raw)

\* C7's case: a second run, under another mode, finished on an engine whose
\* players still hold the first run's history, and returned other records
C7_Witness ==
    /\ impl = "pgg"
    /\ phase = "COMPLETE"
    /\ Len(returned) = 2
    /\ returned[1].governance # returned[2].governance
    /\ returned[1].result # <<>>
    /\ returned[2].result # returned[1].result
    /\ Len(history[1]) = 2 * n_rounds
    /\ records = returned[2].result

\* C8: with n_players >= 1, n_rounds >= 1 and a governance mode, a run that was
\* invoked raises nothing and returns exactly n_players * n_rounds records: round
\* by round, one record per player 1..n_players.
C8_RunEmitsEveryRound ==
    (ValidConfig /\ governance \in GovernanceModes) =>
        /\ phase # "ERROR"
        /\ phase = "COMPLETE" =>
            /\ Len(records) = n_players * n_rounds
            /\ \A k \in 1..Len(records) :
                /\ records[k].round = ((k - 1) \div n_players) + 1
                /\ records[k].player_id = ((k - 1) % n_players) + 1

\* C9: with n_players <= 0, endowment < 0, n_rounds <= 0 or a governance argument
\* that is no mode, no run completes and no record is emitted.
C9_InvalidConfigFailsFast ==
    (~ValidConfig \/ governance \notin (GovernanceModes \cup {""})) =>
        (phase # "COMPLETE" /\ records = <<>>)

\* C10 as claimed: under none, the reward of every record is the base payoff
\* (endowment - contribution) + total_pool * multiplier / n_players, rounded.
C10_NoneIsBase ==
    (ValidConfig /\ governance = "none") =>
        \A k \in 1..Len(records) :
            records[k].reward
                = Round2(100 * BaseOf(records[k]).num, BaseOf(records[k]).den)

\* C10 as amended: under none, the reward is the rounded base payoff, which gen and
\* app floor at 0 and pgg leaves as it is.
C10_NoneIsFlooredBase ==
    governance = "none" =>
        \A k \in 1..Len(records) :
            LET rounded == Round2(100 * BaseOf(records[k]).num, BaseOf(records[k]).den)
            IN  records[k].reward
                    = IF impl = "pgg" THEN rounded ELSE Max(0, rounded)

\* C10's case: a finished run under none that holds a record with a positive
\* reward out of a pool others filled, and a record whose negative base was floored
C10_Witness ==
    /\ impl = "gen"
    /\ governance = "none"
    /\ phase = "COMPLETE"
    /\ \E j, k \in 1..Len(records) :
        /\ records[j].total_pool > records[j].contribution
        /\ records[j].reward > 0
        /\ BaseOf(records[k]).num < 0
        /\ records[k].reward = 0

----------------------------------------------------------------------------
(* Properties of reset and of the rounds' decisions *)

\* C11: reset, after any number of completed runs, leaves every player with an
\* empty contribution history and an empty payoff history, and leaves the players'
\* number, order, types and endowment and the engine's parameters as they were.
\* Between runs the engine takes no step but reset: a step that is taken outside a
\* run and starts no run is a call of reset.
C11_ResetClearsHistoriesOnly ==
    [][(phase \in {"CONFIGURED", "COMPLETE"} /\ phase' = phase) =>
            /\ Len(history') = Len(player_types)
            /\ Len(rewards') = Len(player_types)
            /\ \A p \in 1..Len(player_types) :
                    history'[p] = <<>> /\ rewards'[p] = <<>>
            /\ config' = config]_vars

\* C11's case: two runs completed, then reset emptied the histories of an engine
\* that has players, whose last run emitted records
C11_Witness ==
    /\ impl = "pgg"
    /\ phase = "COMPLETE"
    /\ Len(returned) = 2
    /\ returned[2].result # <<>>
    /\ Len(player_types) >= 1
    /\ \A p \in 1..Len(player_types) : history[p] = <<>> /\ rewards[p] = <<>>

\* the mode and type pairs whose decision run_simulation adapts
Adapts(gov, p_type) ==
    \/ gov = "punishment" /\ p_type = "free_rider"
    \/ gov = "reward" /\ p_type = "conditional"

\* the records of the round that was simulated last
LastRound == SubSeq(records, Len(records) - Len(decisions.raw) + 1, Len(records))

\* C12: in the round simulated last, a player's final contribution differs from
\* its raw decision clamped to [0, endowment] only under punishment for a free
\* rider or under reward for a conditional player; for every other pair the two
\* are equal.  The pool is the sum of the final contributions, and the reward is
\* the payoff of the final contribution and that pool: the adaptation comes before
\* the sum and is no part of the payoff.
C12_AdaptationByTypeAndMode ==
    (phase \in {"RUNNING", "COMPLETE"} /\ round >= 2) =>
        \A k \in 1..Len(decisions.raw) :
            LET rec == LastRound[k]
            IN  /\ rec.player_id = k
                /\ ~Adapts(governance, player_types[k]) =>
                        rec.contribution = Clamp(decisions.raw[k], endowment)
                /\ rec.total_pool
                        = SumSeq([j \in 1..Len(decisions.raw) |-> LastRound[j].contribution])
                /\ rec.reward =
                        IF impl = "pgg"
                        THEN PggReward(rec.contribution, rec.total_pool, governance,
                                       multiplier, n_players, endowment)
                        ELSE CalculatePayoff(rec.contribution, rec.total_pool, governance,
                                             multiplier, n_players, endowment)

\* C12's case: under punishment a free rider contributed more than its clamped
\* raw decision, an altruist beside it contributed its raw decision clamped to the
\* endowment, and the pool holds the free rider's raised contribution
C12_Witness ==
    /\ impl = "gen"
    /\ governance = "punishment"
    /\ phase \in {"RUNNING", "COMPLETE"}
    /\ round >= 2
    /\ \E j, k \in 1..Len(decisions.raw) :
        /\ player_types[j] = "free_rider"
        /\ LastRound[j].contribution > Clamp(decisions.raw[j], endowment)
        /\ player_types[k] = "altruist"
        /\ decisions.raw[k] > endowment
        /\ LastRound[k].contribution = endowment
        /\ LastRound[k].total_pool
                > SumSeq([p \in 1..Len(decisions.raw) |-> Clamp(decisions.raw[p], endowment)])

\* C13: the average passed to the decisions of round r + 1 is the total_pool of
\* round r divided by n_players, the mean of round r's final contributions; the
\* decisions of round 1 of every run are passed the engine's fixed first value
\* (0 in gen and app, endowment / 2 in pgg), whatever earlier runs ended with.
\* decisions.prev is what the round simulated last was passed, prev_avg what the
\* next round will be passed.
C13_AverageThreaded ==
    phase \in {"RUNNING", "COMPLETE"} =>
        /\ round = 1 => prev_avg = InitialAvg
        /\ round = 2 => decisions.prev = InitialAvg
        /\ round >= 3 =>
            /\ decisions.prev.den = n_players
            /\ decisions.prev.num = ContributionSum(records, round - 2)
            /\ \A k \in 1..Len(records) :
                    records[k].round = round - 2
                        => decisions.prev.num = records[k].total_pool
        /\ round >= 2 =>
            /\ prev_avg.den = n_players
            /\ prev_avg.num = ContributionSum(records, round - 1)
            /\ \A k \in 1..Len(records) :
                    records[k].round = round - 1 => prev_avg.num = records[k].total_pool

\* C13's case: the second run of an engine has simulated its round 2, which was
\* passed the positive mean of round 1, not the first value; the first run had
\* ended with a mean that is not the first value either
C13_Witness ==
    /\ Len(returned) = 1
    /\ phase = "RUNNING"
    /\ round = 3
    /\ decisions.prev.num > 0
    /\ decisions.prev.num * InitialAvg.den # InitialAvg.num * decisions.prev.den
    /\ returned[1].result # <<>>
    /\ LET last == returned[1].result[Len(returned[1].result)]
       IN  last.total_pool * InitialAvg.den # InitialAvg.num * n_players

\* the record holds the largest contribution of its round
HoldsMaximum(rec) ==
    \A k \in 1..Len(records) :
        records[k].round = rec.round => records[k].contribution <= rec.contribution

\* C14: under punishment, with n_players >= 1, a player holding the round's
\* largest contribution is not below the threshold (its contribution is at least
\* the round's average) and keeps its base reward: the punishment rule does not
\* zero it, so no round has every reward confiscated by the rule.
C14_MaximumNeverPunished ==
    (governance = "punishment" /\ n_players >= 1) =>
        \A k \in 1..Len(records) :
            HoldsMaximum(records[k]) =>
                LET rec == records[k]
                    rounded == Round2(100 * BaseOf(rec).num, BaseOf(rec).den)
                IN  /\ rec.contribution * n_players >= rec.total_pool
                    /\ rec.reward = IF impl = "pgg" THEN rounded ELSE Max(0, rounded)

\* C14's case: a run under punishment with a round where one player was punished
\* out of a positive base reward while the largest contributor kept a positive
\* reward, and a round where all contributed the same positive amount, exactly
\* the average, and all kept a positive reward
C14_Witness ==
    /\ impl = "pgg"
    /\ governance = "punishment"
    /\ n_players >= 2
    /\ \E j, k \in 1..Len(records) :
        /\ records[j].round = records[k].round
        /\ HoldsMaximum(records[k])
        /\ records[k].reward > 0
        /\ records[j].contribution * n_players < records[j].total_pool
        /\ BaseOf(records[j]).num > 0
        /\ records[j].reward = 0
    /\ \E k \in 1..Len(records) :
        /\ records[k].contribution > 0
        /\ records[k].contribution * n_players = records[k].total_pool
        /\ \A j \in 1..Len(records) :
            records[j].round = records[k].round =>
                (HoldsMaximum(records[j]) /\ records[j].reward > 0)

====
